---- MODULE Spec2Model ----
(***************************************************************************)
(* Restaurant order prediction engine: predictor.py (weather lookup,       *)
(* feature building, schema alignment, scoring, aggregation) and api.py    *)
(* (the POST /predict facade and the health check).                         *)
(*                                                                         *)
(* Representation.  A Python str that the code parses is a sequence of     *)
(* one-character strings.  A dict is a function whose DOMAIN is its key    *)
(* set.  A DataFrame is a sequence of rows, each a function from column    *)
(* label to cell.  A column label made by get_dummies, prefix + "_" +      *)
(* value, is the pair <<prefix, value>>; a plain label is <<name>>.        *)
(* A probability is an integer number of basis points (1/10000), or a      *)
(* ratio [num, den] of basis points where a mean is taken.                 *)
(***************************************************************************)
EXTENDS Integers, Sequences, FiniteSets, TLC

VARIABLES
  today,            \* datetime.today().date()
  df_base,          \* rows of full_details_for_app.csv (name, category)
  model_columns,    \* the classifier's ordered column list
  model,            \* the classifier artifact
  argsort_kind,     \* how this build's default sort leaves equal keys
  phase,            \* "idle" | "done": a request is handled from idle
  entry,            \* which operation produced the observation below
  req,              \* the arguments of the last request
  provider,         \* what the weather provider answers to this request
  run,              \* everything the last generate_predictions call did
  gp_calls,         \* generate_predictions invocations by the last facade call
  http,             \* the facade's response
  prev              \* the remembered previous run (kept only under SpecDet)

vars == <<today, df_base, model_columns, model, argsort_kind, phase, entry,
          req, provider, run, gp_calls, http, prev>>

artifacts == <<df_base, model_columns, model, argsort_kind>>

\* ---------------------------------------------------------------- bounds
\* How many times the current date advances.
MaxDaysElapsed == 1
\* Rows of the reference dataset.
MaxMenuRows == 2

\* ------------------------------------------------------------ characters
Digits == {"0", "1", "2", "3", "4", "5", "6", "7", "8", "9"}

DigitVal(c) ==
  CASE c = "0" -> 0 [] c = "1" -> 1 [] c = "2" -> 2 [] c = "3" -> 3
    [] c = "4" -> 4 [] c = "5" -> 5 [] c = "6" -> 6 [] c = "7" -> 7
    [] c = "8" -> 8 [] c = "9" -> 9

\* The character at 1-based position i, or "" past the end.
At(s, i) == IF i \in 1..Len(s) THEN s[i] ELSE ""

\* ----------------------------------------------------------------- dates
IsLeap(y) == (y % 4 = 0) /\ ((y % 100 # 0) \/ (y % 400 = 0))

DaysInMonth(y, m) ==
  IF m = 2 THEN (IF IsLeap(y) THEN 29 ELSE 28)
  ELSE IF m \in {4, 6, 9, 11} THEN 30 ELSE 31

DaysBeforeYear(y) ==
  (y - 1) * 365 + ((y - 1) \div 4) - ((y - 1) \div 100) + ((y - 1) \div 400)

RECURSIVE DaysBeforeMonth(_, _)
DaysBeforeMonth(y, m) ==
  IF m = 1 THEN 0 ELSE DaysBeforeMonth(y, m - 1) + DaysInMonth(y, m - 1)

\* date.toordinal(): 0001-01-01 is day 1.
ToOrdinal(d) == DaysBeforeYear(d.year) + DaysBeforeMonth(d.year, d.month) + d.day

\* (a - b).days
DateDiffDays(a, b) == ToOrdinal(a) - ToOrdinal(b)

\* The day after d.
Tomorrow(d) ==
  IF d.day < DaysInMonth(d.year, d.month)
  THEN [d EXCEPT !.day = d.day + 1]
  ELSE IF d.month < 12
       THEN [year |-> d.year, month |-> d.month + 1, day |-> 1]
       ELSE [year |-> d.year + 1, month |-> 1, day |-> 1]

\* date.strftime('%A'); 0001-01-01 was a Monday.
DayName(d) ==
  LET w == (ToOrdinal(d) - 1) % 7
  IN  CASE w = 0 -> "Monday" [] w = 1 -> "Tuesday" [] w = 2 -> "Wednesday"
        [] w = 3 -> "Thursday" [] w = 4 -> "Friday" [] w = 5 -> "Saturday"
        [] w = 6 -> "Sunday"

\* ------------------------------------------------- datetime.strptime
\* The regular expression _strptime builds for '%Y-%m-%d' is
\*   (?P<Y>\d\d\d\d)-(?P<m>1[0-2]|0[1-9]|[1-9])-(?P<d>3[01]|[12]\d|0[1-9]|[1-9]| [1-9])
\* matched at the start of the string; text left over after the match, a year
\* of 0 and a day the month does not have are each a ValueError.

\* End positions (exclusive) the month alternatives give at i, in regex order.
MonthEnds(s, i) ==
  (IF At(s, i) = "1" /\ At(s, i + 1) \in {"0", "1", "2"} THEN <<i + 2>> ELSE << >>)
  \o (IF At(s, i) = "0" /\ At(s, i + 1) \in (Digits \ {"0"}) THEN <<i + 2>> ELSE << >>)
  \o (IF At(s, i) \in (Digits \ {"0"}) THEN <<i + 1>> ELSE << >>)

\* End positions the day alternatives give at i, in regex order.
DayEnds(s, i) ==
  (IF At(s, i) = "3" /\ At(s, i + 1) \in {"0", "1"} THEN <<i + 2>> ELSE << >>)
  \o (IF At(s, i) \in {"1", "2"} /\ At(s, i + 1) \in Digits THEN <<i + 2>> ELSE << >>)
  \o (IF At(s, i) = "0" /\ At(s, i + 1) \in (Digits \ {"0"}) THEN <<i + 2>> ELSE << >>)
  \o (IF At(s, i) \in (Digits \ {"0"}) THEN <<i + 1>> ELSE << >>)
  \o (IF At(s, i) = " " /\ At(s, i + 1) \in (Digits \ {"0"}) THEN <<i + 2>> ELSE << >>)

\* The digits of s in positions i..j-1 as a number; a blank counts as nothing.
RECURSIVE IntOf(_, _, _)
IntOf(s, i, j) ==
  IF j <= i THEN 0
  ELSE IF s[j - 1] = " " THEN IntOf(s, i, j - 1)
  ELSE 10 * IntOf(s, i, j - 1) + DigitVal(s[j - 1])

\* The regex match with backtracking: the first month alternative after which
\* "-" and a day alternative follow, and then the first day alternative.
RegexMatch(s) ==
  IF ~(\A i \in 1..4 : At(s, i) \in Digits) \/ At(s, 5) # "-"
  THEN [matched |-> FALSE]
  ELSE LET ms   == MonthEnds(s, 6)
           good == {k \in 1..Len(ms) :
                      At(s, ms[k]) = "-" /\ DayEnds(s, ms[k] + 1) # << >>}
       IN  IF good = {} THEN [matched |-> FALSE]
           ELSE LET k  == CHOOSE x \in good : \A y \in good : x <= y
                    me == ms[k]
                    de == DayEnds(s, me + 1)[1]
                IN  [matched |-> TRUE, mend |-> me, dend |-> de]

\* datetime.strptime(s, '%Y-%m-%d').date(): [ok, date], ok = FALSE for ValueError.
Strptime(s) ==
  LET r == RegexMatch(s)
  IN  IF ~r.matched THEN [ok |-> FALSE]
      ELSE IF r.dend # Len(s) + 1 THEN [ok |-> FALSE]
      ELSE LET y == IntOf(s, 1, 5)
               m == IntOf(s, 6, r.mend)
               d == IntOf(s, r.mend + 1, r.dend)
           IN  IF y < 1 \/ d > DaysInMonth(y, m) THEN [ok |-> FALSE]
               ELSE [ok |-> TRUE, date |-> [year |-> y, month |-> m, day |-> d]]

\* ---------------------------------------------------------- configuration
RESTAURANT_LOCATION == "Tamil Nadu"

\* holidays.CountryHoliday('IN', state='TN'): membership of a date.  The
\* fixed-date national holidays stand for the library's calendar.
holiday_calendar(d) ==
  \/ (d.month = 1 /\ d.day = 26)
  \/ (d.month = 8 /\ d.day = 15)
  \/ (d.month = 10 /\ d.day = 2)

\* ------------------------------------------------------ weather provider
\* One answer of the provider to requests.get: the transport may fail, the
\* status may be an error, the JSON may lack 'forecast', and the entries of
\* forecast.forecastday[-1].hour may be complete, lack a field, carry an
\* 'error' key, or not be objects at all.
WeatherFields == {"temp_c", "wind_kph", "precip_mm", "cloud", "humidity", "pressure_mb"}

ProviderResponses ==
  { [transport |-> "error", status |-> 0,   has_forecast |-> FALSE, nhours |-> 0,  slice |-> "none"],
    [transport |-> "ok",    status |-> 500, has_forecast |-> FALSE, nhours |-> 0,  slice |-> "none"],
    [transport |-> "ok",    status |-> 200, has_forecast |-> FALSE, nhours |-> 0,  slice |-> "none"],
    [transport |-> "ok",    status |-> 200, has_forecast |-> TRUE,  nhours |-> 24, slice |-> "complete"],
    [transport |-> "ok",    status |-> 200, has_forecast |-> TRUE,  nhours |-> 24, slice |-> "no_humidity"],
    [transport |-> "ok",    status |-> 200, has_forecast |-> TRUE,  nhours |-> 24, slice |-> "with_error"],
    [transport |-> "ok",    status |-> 200, has_forecast |-> TRUE,  nhours |-> 24, slice |-> "number"] }

\* A JSON value as Python sees it: a dict, or something that is not one.
Dict(f) == [is_dict |-> TRUE, d |-> f]
NotADict == [is_dict |-> FALSE, d |-> [x \in {} |-> 0]]

\* The entry for hour index i (from 0) of the answered hour list; the
\* temperature differs from hour to hour.
HourSlice(resp, i) ==
  LET full == [k \in WeatherFields |->
                 CASE k = "temp_c"      -> 20 + i
                   [] k = "wind_kph"    -> 5
                   [] k = "precip_mm"   -> 0
                   [] k = "cloud"       -> 10
                   [] k = "humidity"    -> 50
                   [] k = "pressure_mb" -> 1012]
  IN  CASE resp.slice = "complete"    -> Dict(full)
        [] resp.slice = "no_humidity" -> Dict([k \in WeatherFields \ {"humidity"} |-> full[k]])
        [] resp.slice = "with_error"  -> Dict([k \in WeatherFields \cup {"error"} |->
                                                 IF k = "error" THEN "No data" ELSE full[k]])
        [] OTHER                      -> NotADict

\* response.json()['forecast']['forecastday'][-1]['hour']
HourlyData(resp) == [i \in 1..resp.nhours |-> HourSlice(resp, i - 1)]

\* Python's list[k]: k counts from 0, a negative k counts from the end.
PyIndexOk(n, k) == (0 <= k /\ k < n) \/ (k < 0 /\ -k <= n)
PyIndex(seq, k) == IF k >= 0 THEN seq[k + 1] ELSE seq[Len(seq) + k + 1]

\* The exception lines 41-44 raise on this answer, or "" for none.
LookupException(resp, target_hour) ==
  IF resp.transport # "ok" THEN "ConnectionError"
  ELSE IF resp.status >= 400 THEN "HTTPError"
  ELSE IF ~resp.has_forecast THEN "KeyError"
  ELSE IF ~PyIndexOk(resp.nhours, target_hour) THEN "IndexError"
  ELSE ""

\* f"API or data parsing error: {e}"
ApiErrorText(exc) ==
  CASE exc = "ConnectionError" -> "API or data parsing error: connection failed"
    [] exc = "HTTPError"       -> "API or data parsing error: 500 Server Error"
    [] exc = "KeyError"        -> "API or data parsing error: 'forecast'"
    [] exc = "IndexError"      -> "API or data parsing error: list index out of range"

OutOfRangeText == "Date must be within the next 14 days."
InvalidDateText == "Invalid date format. Please use YYYY-MM-DD."

ErrorDict(text) == Dict([k \in {"error"} |-> text])

\* days = (target_date - datetime.today().date()).days + 1
DayOffset(target_date, now) == DateDiffDays(target_date, now) + 1

\* Variant: the window with its lower end included (0 <= days).
InWindowOpenLow(days) == 0 <= days /\ days <= 14
\* 0 < days <= 14
InWindow(days) == 0 < days /\ days <= 14

\* Variant: a lookup without the except clause, which lets the exception out.
LookupReraises(exc) == [raised |-> TRUE, exception |-> exc, ret |-> NotADict]
\* What the except clause of the lookup does with an exception raised by
\* lines 41-44: it returns the error dict (raised = FALSE).
LookupExcept(exc) == [raised |-> FALSE, exception |-> "", ret |-> ErrorDict(ApiErrorText(exc))]

\* get_hourly_weather_forecast: what it returns (or raises) and the outbound
\* requests it made.
get_hourly_weather_forecast(location, target_date, target_hour, now, resp) ==
  LET days == DayOffset(target_date, now)
      sent == <<[url |-> "http://api.weatherapi.com/v1/forecast.json",
                 q |-> location, days |-> days]>>
      exc  == LookupException(resp, target_hour)
  IN  IF ~InWindow(days)
      THEN [raised |-> FALSE, exception |-> "", ret |-> ErrorDict(OutOfRangeText),
            requests |-> << >>]
      ELSE IF exc # ""
      THEN [raised |-> LookupExcept(exc).raised,
            exception |-> LookupExcept(exc).exception,
            ret |-> LookupExcept(exc).ret, requests |-> sent]
      ELSE [raised |-> FALSE, exception |-> "",
            ret |-> PyIndex(HourlyData(resp), target_hour), requests |-> sent]

\* ------------------------------------------------------ reference dataset
\* The food_item_name values of the dataset, in ascending (string) order.
ItemNames == <<"Appam", "Biryani">>

NameRank(n) == CHOOSE i \in 1..Len(ItemNames) : ItemNames[i] = n

MenuRow(n, c) == [food_item_name |-> n, food_item_category |-> c]

\* df_base[['food_item_name', 'food_item_category']].drop_duplicates(): the
\* first occurrence of each pair, in load order.
RECURSIVE DropDuplicates(_)
DropDuplicates(rows) ==
  IF rows = << >> THEN << >>
  ELSE LET n    == Len(rows)
           head == DropDuplicates(SubSeq(rows, 1, n - 1))
       IN  IF \E i \in 1..(n - 1) : rows[i] = rows[n] THEN head
           ELSE Append(head, rows[n])

\* -------------------------------------------------------- feature builder
CategoricalColumns ==
  {"food_item_name", "food_item_category", "day_of_the_week", "day_type", "order_type"}
PlainColumns ==
  {"hour", "temperature_c", "wind_kph", "precipitation_mm", "cloud", "humidity",
   "pressure_mb", "is_holiday", "is_special_event"}
BooleanColumns == {"is_holiday", "is_special_event"}

DayType(day_of_week) ==
  IF day_of_week \in {"Saturday", "Sunday"} THEN "Weekend" ELSE "Weekday"

\* base_scenario with its order_type: one feature row.
Scenario(item, order_type, target_date, target_hour, is_special_event, w) ==
  [hour               |-> target_hour,
   food_item_name     |-> item.food_item_name,
   food_item_category |-> item.food_item_category,
   day_of_the_week    |-> DayName(target_date),
   day_type           |-> DayType(DayName(target_date)),
   temperature_c      |-> w["temp_c"],
   wind_kph           |-> w["wind_kph"],
   precipitation_mm   |-> w["precip_mm"],
   cloud              |-> w["cloud"],
   humidity           |-> w["humidity"],
   pressure_mb        |-> w["pressure_mb"],
   is_holiday         |-> holiday_calendar(target_date),
   is_special_event   |-> is_special_event,
   order_type         |-> order_type]

\* The scenarios appended for one item.
ItemScenarios(item, target_date, target_hour, is_special_event, w) ==
  <<Scenario(item, "Dine In", target_date, target_hour, is_special_event, w),
    Scenario(item, "Take Away", target_date, target_hour, is_special_event, w)>>

\* Variant: `scenarios` kept at module level, so a request starts from the
\* rows of the request before it.
InitialScenariosKept == IF prev.ran THEN prev.scenarios ELSE << >>
\* What the list `scenarios` starts from (line 70).
InitialScenarios == << >>

\* The loop of lines 71-88 over unique_items.
RECURSIVE BuildScenarios(_, _, _, _, _)
BuildScenarios(items, target_date, target_hour, is_special_event, w) ==
  IF items = << >> THEN InitialScenarios
  ELSE BuildScenarios(SubSeq(items, 1, Len(items) - 1),
                      target_date, target_hour, is_special_event, w)
       \o ItemScenarios(items[Len(items)], target_date, target_hour,
                        is_special_event, w)

\* ---------------------------------------------------------- model adapter
\* The labels of pd.get_dummies(future_df, columns=[...]): the columns not
\* listed keep their label, each listed column gives one label per value
\* that occurs in it.
EncodedColumns(frame) ==
  {<<c>> : c \in PlainColumns}
  \cup {<<c, frame[i][c]>> : c \in CategoricalColumns, i \in DOMAIN frame}

\* One row of the encoded frame: a cell per label.  An indicator is 1 or 0,
\* and a bool cell is written as the number it is (True == 1, False == 0),
\* which is how the frame reaches the classifier's matrix.
EncodedRow(row, frame) ==
  [l \in EncodedColumns(frame) |->
     IF Len(l) = 1
     THEN (IF l[1] \in BooleanColumns THEN (IF row[l[1]] THEN 1 ELSE 0) ELSE row[l[1]])
     ELSE IF row[l[1]] = l[2] THEN 1 ELSE 0]

get_dummies(frame) == [i \in DOMAIN frame |-> EncodedRow(frame[i], frame)]

\* Variant: a selection of the schema columns the expansion has, which adds
\* no column.
ReindexRowPresentOnly(enc, columns) ==
  LET keep == SelectSeq(columns, LAMBDA l : l \in DOMAIN enc)
  IN  [j \in DOMAIN keep |-> enc[keep[j]]]
\* future_encoded.reindex(columns=model_columns, fill_value=0): one row, as
\* the cells in the order of `columns`.
ReindexRow(enc, columns) ==
  [j \in DOMAIN columns |->
     IF columns[j] \in DOMAIN enc THEN enc[columns[j]] ELSE 0]

Reindex(encoded, columns) ==
  [i \in DOMAIN encoded |-> ReindexRow(encoded[i], columns)]

\* The classifier is an opaque artifact.  It stands here as a deterministic,
\* position-sensitive function of the aligned row, in units of 1/100000:
\* bias + step * sum over j of j * cell j, kept within [0, 1].
RECURSIVE WeightedSum(_, _)
WeightedSum(row, j) ==
  IF j = 0 THEN 0 ELSE WeightedSum(row, j - 1) + j * row[j]

Clamp(x) == IF x < 0 THEN 0 ELSE IF x > 100000 THEN 100000 ELSE x

PredictRow(m, row) == Clamp(m.bias + m.step * WeightedSum(row, Len(row)))

\* model.predict_proba(future_aligned)[:, 1]; the classifier refuses a frame
\* whose width is not the one it was trained on.
ModelAccepts(m, aligned) == \A i \in DOMAIN aligned : Len(aligned[i]) = m.n_features

predict_proba(m, aligned) == [i \in DOMAIN aligned |-> PredictRow(m, aligned[i])]

\* future_df['probability'] = predictions_proba: by position.
Attach(frame, proba) ==
  [i \in DOMAIN frame |-> [row |-> frame[i], probability |-> proba[i]]]

\* --------------------------------------------------- aggregator/formatter
\* a/b <= c/d for ratios with positive denominators.
RatioLeq(x, y) == x.num * y.den <= y.num * x.den
RatioEq(x, y) == x.num * y.den = y.num * x.den

RECURSIVE SumProb(_, _)
SumProb(frame, idx) ==
  IF idx = {} THEN 0
  ELSE LET i == CHOOSE x \in idx : TRUE
       IN  frame[i].probability + SumProb(frame, idx \ {i})

\* future_df.groupby('food_item_name')['probability'].mean().reset_index():
\* one row per name, in ascending name order, the mean as sum over count.
GroupRow(frame, name) ==
  LET idx == {i \in DOMAIN frame : frame[i].row.food_item_name = name}
  IN  [food_item_name |-> name,
       probability |-> [num |-> SumProb(frame, idx), den |-> Cardinality(idx)]]

\* Variant: the group keys in order of first appearance (groupby sort=False).
GroupKeysAsLoaded(frame) ==
  LET RECURSIVE Keys(_)
      Keys(n) ==
        IF n = 0 THEN << >>
        ELSE IF \E i \in 1..(n - 1) : frame[i].row.food_item_name = frame[n].row.food_item_name
             THEN Keys(n - 1)
             ELSE Append(Keys(n - 1), frame[n].row.food_item_name)
  IN  Keys(Len(frame))
\* The group keys, sorted ascending (groupby's default sort=True).
GroupKeys(frame) ==
  SelectSeq(ItemNames, LAMBDA n : \E i \in DOMAIN frame : frame[i].row.food_item_name = n)

GroupByMean(frame) ==
  LET keys == GroupKeys(frame)
  IN  [k \in DOMAIN keys |-> GroupRow(frame, keys[k])]

\* Variant: the sort without ascending=False.
ComesBeforeAscending(groups, kind, i, j) ==
  \/ ~RatioLeq(groups[j].probability, groups[i].probability)
  \/ /\ RatioEq(groups[i].probability, groups[j].probability)
     /\ IF kind = "stable" THEN i < j ELSE j < i
\* Whether row i comes before row j in overall.sort_values('probability',
\* ascending=False).  The default kind is quicksort, which is not stable:
\* what it does with equal keys is a property of the build.  "stable" is a
\* build that leaves equal keys in place, "reversed" one that does not.
ComesBefore(groups, kind, i, j) ==
  \/ ~RatioLeq(groups[i].probability, groups[j].probability)
  \/ /\ RatioEq(groups[i].probability, groups[j].probability)
     /\ IF kind = "stable" THEN i < j ELSE j < i

SortValues(groups, kind) ==
  LET pos(i) == 1 + Cardinality({j \in DOMAIN groups : ComesBefore(groups, kind, j, i)})
  IN  [p \in DOMAIN groups |-> groups[CHOOSE i \in DOMAIN groups : pos(i) = p]]

\* round(n / d) to the nearest integer, an exact half to the even one.
RoundHalfEven(n, d) ==
  LET q == n \div d
      r == n % d
  IN  IF 2 * r < d THEN q
      ELSE IF 2 * r > d THEN q + 1
      ELSE IF q % 2 = 0 THEN q ELSE q + 1

\* '{:.2%}'.format(p): the percentage with two decimals, held as the number
\* of hundredths of a percent it shows ("12.35%" is 1235).
FormatPercent(p) == [percent_hundredths |-> RoundHalfEven(p.num, p.den * 10)]

Whole(p) == [num |-> p, den |-> 1]

\* overall['probability'].map('{:.2%}'.format) and to_dict(orient='records')
OverallRecords(sorted) ==
  [k \in DOMAIN sorted |->
     [food_item_name |-> sorted[k].food_item_name,
      probability |-> FormatPercent(sorted[k].probability)]]

\* future_df.pivot(index='food_item_name', columns='order_type', ...) raises
\* ValueError when an (index, column) pair occurs twice.
PivotRaises(frame) ==
  \E i, j \in DOMAIN frame :
     /\ i < j
     /\ frame[i].row.food_item_name = frame[j].row.food_item_name
     /\ frame[i].row.order_type = frame[j].row.order_type

\* One row of the pivot, after reset_index().fillna(0) and the formatting of
\* lines 107-108: a missing (name, order type) cell becomes 0.
PivotCell(frame, name, order_type) ==
  LET idx == {i \in DOMAIN frame : /\ frame[i].row.food_item_name = name
                                   /\ frame[i].row.order_type = order_type}
  IN  IF idx = {} THEN Whole(0)
      ELSE Whole(frame[CHOOSE i \in idx : TRUE].probability)

DetailedRecords(frame) ==
  LET keys == GroupKeys(frame)
  IN  [k \in DOMAIN keys |->
         [c \in {"food_item_name", "Dine In", "Take Away"} |->
            IF c = "food_item_name" THEN keys[k]
            ELSE FormatPercent(PivotCell(frame, keys[k], c))]]

\* ------------------------------------------------------ prediction service
\* What one call of generate_predictions did: how it ended ("returned" or
\* "raised"), what it returned, the outbound requests, the steps it entered
\* and the frames it built.
Ran(outcome, exception, result, requests, steps, weather_data, scenarios, aligned, scored, sorted) ==
  [outcome |-> outcome, exception |-> exception, result |-> result,
   requests |-> requests, steps |-> steps, weather_data |-> weather_data,
   future_df |-> scenarios, future_aligned |-> aligned, scored |-> scored,
   overall |-> sorted]

NoRun ==
  Ran("none", "", NotADict, << >>, << >>, NotADict, << >>, << >>, << >>, << >>)

\* Lines 111-127.
Envelope(target_date_str, target_hour, is_special_event, target_date, w, scored, sorted) ==
  Dict([k \in {"prediction_metadata", "weather_conditions",
               "overall_prediction", "detailed_prediction"} |->
    CASE k = "prediction_metadata" ->
           [target_date       |-> target_date_str,
            target_hour       |-> target_hour,
            is_special_event  |-> is_special_event,
            is_public_holiday |-> holiday_calendar(target_date),
            day_of_week       |-> DayName(target_date)]
      [] k = "weather_conditions" ->
           [temperature_c    |-> w["temp_c"],
            precipitation_mm |-> w["precip_mm"],
            wind_kph         |-> w["wind_kph"],
            cloud_percent    |-> w["cloud"]]
      [] k = "overall_prediction"  -> OverallRecords(sorted)
      [] k = "detailed_prediction" -> DetailedRecords(scored)])

\* Lines 63-129: everything after the weather data was accepted.
PredictFrom(target_date_str, target_hour, is_special_event, target_date, look) ==
  LET w            == look.ret.d
      unique_items == DropDuplicates(df_base)
      needed       == WeatherFields
      scenarios    == BuildScenarios(unique_items, target_date, target_hour,
                                     is_special_event, w)
      encoded      == get_dummies(scenarios)
      aligned      == Reindex(encoded, model_columns)
      scored       == Attach(scenarios, predict_proba(model, aligned))
      sorted       == SortValues(GroupByMean(scored), argsort_kind)
  IN  IF ~(needed \subseteq DOMAIN w)
      THEN Ran("raised", "KeyError", NotADict, look.requests,
               <<"parse", "weather", "calendar", "features">>,
               look.ret, << >>, << >>, << >>, << >>)
      ELSE IF ~ModelAccepts(model, aligned)
      THEN Ran("raised", "ValueError", NotADict, look.requests,
               <<"parse", "weather", "calendar", "features", "score">>,
               look.ret, scenarios, aligned, << >>, << >>)
      ELSE IF PivotRaises(scored)
      THEN Ran("raised", "ValueError", NotADict, look.requests,
               <<"parse", "weather", "calendar", "features", "score", "aggregate">>,
               look.ret, scenarios, aligned, scored, sorted)
      ELSE Ran("returned", "",
               Envelope(target_date_str, target_hour, is_special_event,
                        target_date, w, scored, sorted),
               look.requests,
               <<"parse", "weather", "calendar", "features", "score", "aggregate",
                 "assemble">>,
               look.ret, scenarios, aligned, scored, sorted)

\* generate_predictions(target_date_str, target_hour, is_special_event), with
\* the current date and the provider's answer it meets.
generate_predictions(target_date_str, target_hour, is_special_event, now, resp) ==
  LET parsed == Strptime(target_date_str)
      look   == get_hourly_weather_forecast(RESTAURANT_LOCATION, parsed.date,
                                            target_hour, now, resp)
  IN  IF ~parsed.ok
      THEN Ran("returned", "", ErrorDict(InvalidDateText), << >>, <<"parse">>,
               NotADict, << >>, << >>, << >>, << >>)
      ELSE IF look.raised
      THEN Ran("raised", look.exception, NotADict, look.requests,
               <<"parse", "weather">>, NotADict, << >>, << >>, << >>, << >>)
      ELSE IF ~look.ret.is_dict
      THEN Ran("raised", "TypeError", NotADict, look.requests,
               <<"parse", "weather">>, look.ret, << >>, << >>, << >>, << >>)
      ELSE IF "error" \in DOMAIN look.ret.d
      THEN Ran("returned", "", look.ret, look.requests, <<"parse", "weather">>,
               look.ret, << >>, << >>, << >>, << >>)
      ELSE PredictFrom(target_date_str, target_hour, is_special_event,
                       parsed.date, look)

\* ------------------------------------------------------------ HTTP facade
\* Variant: the field without le=23.
PayloadValidNoUpperBound(payload) == 0 <= payload.target_hour
\* PredictionInput: target_hour = Field(..., ge=0, le=23)
PayloadValid(payload) == 0 <= payload.target_hour /\ payload.target_hour <= 23

Response(status, detail, body) == [status |-> status, detail |-> detail, body |-> body]
NoResponse == Response(0, "", NotADict)

\* What create_prediction answers once generate_predictions has ended; an
\* exception that escapes the handler is the framework's 500.
Respond(r) ==
  IF r.outcome = "raised" THEN Response(500, "Internal Server Error", NotADict)
  ELSE IF "error" \in DOMAIN r.result.d THEN Response(400, r.result.d["error"], NotADict)
  ELSE Response(200, "", r.result)

HealthPayload ==
  Dict([status |-> "ok",
        message |-> "Prediction API is running. Go to /docs to see the API documentation."])

\* ------------------------------------------------------------------ inputs
\* The current date when the process starts.
Today0 == [year |-> 2024, month |-> 1, day |-> 20]

\* The target_date strings tried:
\*   2024-01-20  a Saturday: day offset 1 on the first day, 0 on the next
\*   2024-01-26  Republic Day, inside the window
\*   2024-02-03  day offset 15 on the first day, 14 on the next
\*   26-01-2024  day first
\*   2024-1-26   the month without its zero
\*   2024-02-30  no such day
DateStrings ==
  { <<"2", "0", "2", "4", "-", "0", "1", "-", "2", "0">>,
    <<"2", "0", "2", "4", "-", "0", "1", "-", "2", "6">>,
    <<"2", "0", "2", "4", "-", "0", "2", "-", "0", "3">>,
    <<"2", "6", "-", "0", "1", "-", "2", "0", "2", "4">>,
    <<"2", "0", "2", "4", "-", "1", "-", "2", "6">>,
    <<"2", "0", "2", "4", "-", "0", "2", "-", "3", "0">> }

TargetHours == {-1, 5, 24}

Request(d, h, e) == [target_date |-> d, target_hour |-> h, is_special_event |-> e]
NoRequest == Request(<< >>, 0, FALSE)
NoProvider ==
  [transport |-> "none", status |-> 0, has_forecast |-> FALSE, nhours |-> 0, slice |-> "none"]

\* The remembered run.
Remembered(ran, r, resp, now, result) ==
  [ran |-> ran, req |-> r, provider |-> resp, today |-> now,
   outcome |-> result.outcome, result |-> result.result,
   scenarios |-> result.future_df]
NoPrev == Remembered(FALSE, NoRequest, NoProvider, Today0, NoRun)

\* ------------------------------------------------------- startup artifacts
MenuItems ==
  {MenuRow("Appam", "Main"), MenuRow("Appam", "Snack"), MenuRow("Biryani", "Main")}

\* The reference datasets: every list of 1..MaxMenuRows rows.  (A dataset
\* with no rows makes get_dummies raise on every request.)
Menus == UNION {[1..n -> MenuItems] : n \in 1..MaxMenuRows}

\* Two column lists: one that names every item and a column no request
\* produces, and one in another order that leaves columns out.
Schema1 ==
  <<<<"hour">>, <<"temperature_c">>, <<"is_special_event">>,
    <<"food_item_name", "Appam">>, <<"food_item_name", "Biryani">>,
    <<"order_type", "Dine In">>, <<"order_type", "Take Away">>,
    <<"food_item_name", "Dosa">>>>
Schema2 ==
  <<<<"order_type", "Take Away">>, <<"food_item_name", "Biryani">>,
    <<"is_holiday">>, <<"day_type", "Weekend">>, <<"hour">>,
    <<"food_item_category", "Dessert">>>>

\* (model_columns, model) pairs: a classifier that tells the rows apart, one
\* that scores every row alike, and one whose column list has drifted from
\* the classifier.
ModelArtifacts ==
  { <<Schema1, [bias |-> 12345, step |-> 7, n_features |-> 8]>>,
    <<Schema2, [bias |-> 50000, step |-> 0, n_features |-> 6]>>,
    <<Schema2, [bias |-> 12345, step |-> 7, n_features |-> 8]>> }

\* ------------------------------------------------------------------- state
Init ==
  /\ today = Today0
  /\ df_base \in Menus
  /\ \E a \in ModelArtifacts : model_columns = a[1] /\ model = a[2]
  /\ argsort_kind \in {"stable", "reversed"}
  /\ phase = "idle"
  /\ entry = "none"
  /\ req = NoRequest
  /\ provider = NoProvider
  /\ run = NoRun
  /\ gp_calls = 0
  /\ http = NoResponse
  /\ prev = NoPrev

\* A direct call of generate_predictions.
GeneratePredictions(d, h, e, resp) ==
  /\ phase = "idle"
  /\ phase' = "done"
  /\ entry' = "generate_predictions"
  /\ req' = Request(d, h, e)
  /\ provider' = resp
  /\ run' = generate_predictions(d, h, e, today, resp)
  /\ gp_calls' = 0
  /\ http' = NoResponse
  /\ UNCHANGED <<today, artifacts, prev>>

\* POST /predict: validation of the payload, then create_prediction.
CreatePrediction(d, h, e, resp) ==
  /\ phase = "idle"
  /\ phase' = "done"
  /\ entry' = "create_prediction"
  /\ req' = Request(d, h, e)
  /\ provider' = resp
  /\ IF ~PayloadValid(Request(d, h, e))
     THEN /\ run' = NoRun
          /\ gp_calls' = 0
          /\ http' = Response(422, "Unprocessable Entity", NotADict)
     ELSE /\ run' = generate_predictions(d, h, e, today, resp)
          /\ gp_calls' = 1
          /\ http' = Respond(run')
  /\ UNCHANGED <<today, artifacts, prev>>

\* GET /
ReadRoot ==
  /\ phase = "idle"
  /\ phase' = "done"
  /\ entry' = "read_root"
  /\ req' = NoRequest
  /\ provider' = NoProvider
  /\ run' = NoRun
  /\ gp_calls' = 0
  /\ http' = Response(200, "", HealthPayload)
  /\ UNCHANGED <<today, artifacts, prev>>

Forget ==
  /\ phase' = "idle"
  /\ entry' = "none"
  /\ req' = NoRequest
  /\ provider' = NoProvider
  /\ run' = NoRun
  /\ gp_calls' = 0
  /\ http' = NoResponse

\* The response is out and the request's data is gone.
Finish ==
  /\ phase = "done"
  /\ Forget
  /\ UNCHANGED <<today, artifacts, prev>>

\* Midnight passes.
NextDay ==
  /\ phase = "idle"
  /\ DateDiffDays(today, Today0) < MaxDaysElapsed
  /\ today' = Tomorrow(today)
  /\ UNCHANGED <<artifacts, phase, entry, req, provider, run, gp_calls, http, prev>>

Next ==
  \/ \E d \in DateStrings, h \in TargetHours, e \in BOOLEAN, resp \in ProviderResponses :
       GeneratePredictions(d, h, e, resp)
  \/ \E d \in DateStrings, h \in TargetHours, e \in BOOLEAN, resp \in ProviderResponses :
       CreatePrediction(d, h, e, resp)
  \/ ReadRoot
  \/ Finish
  \/ NextDay

Spec == Init /\ [][Next]_vars

\* -------------------------------------------- two runs, one after the other
\* The inputs of the runs that are compared.
DetDates ==
  { <<"2", "0", "2", "4", "-", "0", "1", "-", "2", "0">>,
    <<"2", "0", "2", "4", "-", "0", "1", "-", "2", "6">> }
DetHours == {5, 24}
DetResponses == {r \in ProviderResponses : r.transport = "error" \/ r.slice = "complete"}

InitDet == Init /\ model.step # 0 /\ model.n_features = Len(model_columns)

\* The run is remembered, and the request's data is gone.
Remember ==
  /\ phase = "done"
  /\ prev' = Remembered(TRUE, req, provider, today, run)
  /\ Forget
  /\ UNCHANGED <<today, artifacts>>

NextDet ==
  \/ \E d \in DetDates, h \in DetHours, e \in BOOLEAN, resp \in DetResponses :
       GeneratePredictions(d, h, e, resp)
  \/ Remember
  \/ NextDay

SpecDet == InitDet /\ [][NextDet]_vars

\* ================================================================ properties
PredictionKeys ==
  {"prediction_metadata", "weather_conditions", "overall_prediction", "detailed_prediction"}

\* generate_predictions ran in the last request.
Called == run.outcome # "none"

IsErrorObject(r) ==
  r.is_dict /\ "error" \in DOMAIN r.d /\ DOMAIN r.d \cap PredictionKeys = {}

IsSuccessEnvelope(r) ==
  r.is_dict /\ PredictionKeys \subseteq DOMAIN r.d /\ "error" \notin DOMAIN r.d

Succeeded == run.outcome = "returned" /\ IsSuccessEnvelope(run.result)

\* The string has the shape YYYY-MM-DD: four digits, two digits, two digits.
MatchesYMD(s) ==
  /\ Len(s) = 10
  /\ \A i \in {1, 2, 3, 4, 6, 7, 9, 10} : s[i] \in Digits
  /\ s[5] = "-" /\ s[8] = "-"

NoWeatherCall == run.requests = << >>
NoScoring == \A k \in DOMAIN run.steps : run.steps[k] # "score"
Entered(step) == \E k \in DOMAIN run.steps : run.steps[k] = step

\* The distinct menu items of the reference set.
DistinctItems == {df_base[i] : i \in DOMAIN df_base}

\* The mean of an item's Dine In and Take Away row probabilities, from the
\* scored frame of the last run.
RowsOf(item, order_type) ==
  {i \in DOMAIN run.scored :
     /\ run.scored[i].row.food_item_name = item.food_item_name
     /\ run.scored[i].row.food_item_category = item.food_item_category
     /\ run.scored[i].row.order_type = order_type}

ItemMean(item) ==
  [num |-> run.scored[CHOOSE i \in RowsOf(item, "Dine In") : TRUE].probability
           + run.scored[CHOOSE i \in RowsOf(item, "Take Away") : TRUE].probability,
   den |-> 2]

\* The menu items an overall entry can stand for.
ItemsNamed(name) == {it \in DistinctItems : it.food_item_name = name}

\* C1: every target_date string that does not match YYYY-MM-DD ends in the
\* invalid-date error object, with no outbound weather call and no scoring.
C1_MalformedDateRejected ==
  (Called /\ ~MatchesYMD(req.target_date)) =>
     /\ run.outcome = "returned"
     /\ IsErrorObject(run.result)
     /\ run.result.d["error"] = InvalidDateText
     /\ NoWeatherCall
     /\ NoScoring

\* C2: a well-formed date whose day offset is not in 1..14 ends in the
\* out-of-range error object with no weather request and no scoring; an
\* offset in 1..14 issues the weather request with days = offset.
C2_WindowDecidesWeatherCall ==
  (Called /\ Strptime(req.target_date).ok) =>
     LET offset == DateDiffDays(Strptime(req.target_date).date, today) + 1
     IN  IF offset \in 1..14
         THEN Len(run.requests) = 1 /\ run.requests[1].days = offset
         ELSE /\ run.outcome = "returned"
              /\ IsErrorObject(run.result)
              /\ run.result.d["error"] = OutOfRangeText
              /\ NoWeatherCall
              /\ NoScoring

C2_Witness ==
  /\ Called /\ Strptime(req.target_date).ok
  /\ DateDiffDays(Strptime(req.target_date).date, today) + 1 = 15
  /\ IsErrorObject(run.result)
  /\ provider.slice = "complete"

\* The lookup of the last request was made and failed.
LookupFailed ==
  /\ Called /\ Strptime(req.target_date).ok
  /\ (DateDiffDays(Strptime(req.target_date).date, today) + 1) \in 1..14
  /\ \/ provider.transport # "ok"
     \/ provider.status # 200
     \/ ~provider.has_forecast
     \/ req.target_hour >= provider.nhours
     \/ req.target_hour < -provider.nhours

\* C3: when the weather lookup fails, generate_predictions returns exactly the
\* lookup's error object, with no prediction key, and no later step runs.
C3_LookupFailureSurfaced ==
  LookupFailed =>
     /\ run.outcome = "returned"
     /\ run.result = run.weather_data
     /\ DOMAIN run.result.d = {"error"}
     /\ run.result.d["error"] = ApiErrorText(LookupException(provider, req.target_hour))
     /\ run.steps = <<"parse", "weather">>

C3_Witness ==
  /\ LookupFailed
  /\ provider.transport = "error"
  /\ run.outcome = "returned"
  /\ Len(run.requests) = 1

\* The classifier refused the aligned frame in the last run.
ClassifierRefused == Entered("score") /\ ~ModelAccepts(model, run.future_aligned)

\* C4: every run in which the classifier accepts the aligned frame ends in a
\* success envelope or in a single error object, whatever the date string,
\* the hour and the provider's answer; nothing is raised.
C4_TwoTerminalStates ==
  (Called /\ ~ClassifierRefused) =>
     /\ run.outcome = "returned"
     /\ IsSuccessEnvelope(run.result) \/ IsErrorObject(run.result)

\* C5: a successful request's overall_prediction has exactly one entry per
\* distinct menu item, each showing the mean of the item's Dine In and Take
\* Away probabilities, in order of non-increasing mean.
C5_OverallOnePerItemSorted ==
  Succeeded =>
     LET ov == run.result.d["overall_prediction"]
     IN  /\ Len(ov) = Cardinality(DistinctItems)
         /\ \A it \in DistinctItems :
              Cardinality({k \in DOMAIN ov : ov[k].food_item_name = it.food_item_name}) = 1
         /\ \A k \in DOMAIN ov :
              /\ Cardinality(ItemsNamed(ov[k].food_item_name)) = 1
              /\ \A it \in ItemsNamed(ov[k].food_item_name) :
                   ov[k].probability = FormatPercent(ItemMean(it))
         /\ \A k, l \in DOMAIN ov :
              k < l =>
                \A a \in ItemsNamed(ov[k].food_item_name), b \in ItemsNamed(ov[l].food_item_name) :
                   RatioLeq(ItemMean(b), ItemMean(a))

C5_Witness ==
  /\ Succeeded
  /\ Len(run.result.d["overall_prediction"]) = 2
  /\ run.result.d["overall_prediction"][1].food_item_name = "Biryani"
  /\ run.result.d["overall_prediction"][1].probability
       # run.result.d["overall_prediction"][2].probability

\* C6: whenever the weather slice is usable and the classifier has scored the
\* frame, for every reference set (two items of one name and two categories
\* included) two feature rows were built per distinct menu item and the
\* request returns a detailed_prediction with one row per distinct menu item
\* holding both a 'Dine In' and a 'Take Away' value.
C6_TwoRowsAndOneDetailedRowPerItem ==
  Entered("aggregate") =>
     /\ Len(run.future_df) = 2 * Cardinality(DistinctItems)
     /\ \A it \in DistinctItems :
          Cardinality(RowsOf(it, "Dine In")) = 1 /\ Cardinality(RowsOf(it, "Take Away")) = 1
     /\ Succeeded
     /\ LET det == run.result.d["detailed_prediction"]
        IN  /\ Len(det) = Cardinality(DistinctItems)
            /\ \A k \in DOMAIN det : {"Dine In", "Take Away"} \subseteq DOMAIN det[k]

\* Where a name first occurs in the reference set as loaded.
LoadPosition(name) ==
  CHOOSE i \in DOMAIN df_base :
     /\ df_base[i].food_item_name = name
     /\ \A j \in 1..(i - 1) : df_base[j].food_item_name # name

\* Entries k < l of the sorted ranking with equal aggregated probability.
Tied(k, l) ==
  /\ k \in DOMAIN run.overall /\ l \in DOMAIN run.overall /\ k < l
  /\ RatioEq(run.overall[k].probability, run.overall[l].probability)

\* C7 as stated: two items with equal aggregated probability appear in
\* overall_prediction in their menu-load order.
C7_TiesKeepMenuLoadOrder ==
  Succeeded =>
     \A k, l \in DOMAIN run.overall :
        Tied(k, l) =>
           LoadPosition(run.overall[k].food_item_name)
             < LoadPosition(run.overall[l].food_item_name)

\* C7 amended: where the build's sort leaves equal keys in place, two items
\* with equal aggregated probability appear in ascending food_item_name
\* order, the order groupby hands to the sort.
C7_TiesInNameOrderWhenSortKeepsTies ==
  (Succeeded /\ argsort_kind = "stable") =>
     \A k, l \in DOMAIN run.overall :
        Tied(k, l) =>
           NameRank(run.overall[k].food_item_name)
             < NameRank(run.overall[l].food_item_name)

C7_Witness ==
  /\ Succeeded /\ argsort_kind = "stable"
  /\ Tied(1, 2)
  /\ df_base[1].food_item_name = "Biryani"
  /\ run.result.d["overall_prediction"][1].food_item_name = "Appam"

\* C8 as stated: an hour outside 0..23 is refused before generate_predictions
\* is invoked; otherwise it is invoked once and the response is 400 with the
\* error text exactly when the result holds 'error', and the success envelope
\* otherwise.
C8_FacadeTwoOutcomes ==
  (entry = "create_prediction") =>
     IF ~(req.target_hour \in 0..23)
     THEN gp_calls = 0 /\ ~Called /\ http.status \in 400..499
     ELSE /\ gp_calls = 1
          /\ IF run.result.is_dict /\ "error" \in DOMAIN run.result.d
             THEN http.status = 400 /\ http.detail = run.result.d["error"]
             ELSE http.status = 200 /\ http.body = run.result
                  /\ IsSuccessEnvelope(http.body)

\* C8 amended: as stated when generate_predictions returns; when it raises,
\* the response is the server error, with neither error text nor envelope.
C8_FacadeThreeOutcomes ==
  (entry = "create_prediction") =>
     IF ~(req.target_hour \in 0..23)
     THEN gp_calls = 0 /\ ~Called /\ http.status \in 400..499
     ELSE /\ gp_calls = 1 /\ Called
          /\ IF run.outcome = "raised"
             THEN http.status = 500 /\ ~http.body.is_dict
             ELSE IF "error" \in DOMAIN run.result.d
             THEN http.status = 400 /\ http.detail = run.result.d["error"]
                  /\ ~http.body.is_dict
             ELSE http.status = 200 /\ http.body = run.result
                  /\ IsSuccessEnvelope(http.body)

C8_Witness ==
  /\ entry = "create_prediction" /\ gp_calls = 1
  /\ http.status = 400 /\ http.detail = OutOfRangeText

\* The remembered run and the last run had the same arguments and met the
\* same provider answer.
SameRequest ==
  /\ prev.ran /\ Called
  /\ prev.req = req
  /\ prev.provider = provider

SameOutput == prev.outcome = run.outcome /\ prev.result = run.result

ExpectedCell(row, l) ==
  IF Len(l) = 2
  THEN (IF l[1] \in CategoricalColumns /\ row[l[1]] = l[2] THEN 1 ELSE 0)
  ELSE IF l[1] \in BooleanColumns THEN (IF row[l[1]] THEN 1 ELSE 0)
  ELSE IF l[1] \in PlainColumns THEN row[l[1]]
  ELSE 0

\* C10: the frame handed to the classifier has exactly the schema's columns
\* in the schema's order (0 for a column the expansion lacks, nothing for an
\* expanded column the schema lacks), one row per feature row in the same
\* order, and the i-th probability is attached to the i-th feature row.
C10_AlignedToSchema ==
  Entered("score") =>
     /\ Len(run.future_aligned) = Len(run.future_df)
     /\ \A i \in DOMAIN run.future_aligned :
          /\ Len(run.future_aligned[i]) = Len(model_columns)
          /\ \A j \in DOMAIN model_columns :
               run.future_aligned[i][j] = ExpectedCell(run.future_df[i], model_columns[j])
     /\ \A i \in DOMAIN run.scored :
          /\ run.scored[i].row = run.future_df[i]
          /\ run.scored[i].probability = PredictRow(model, run.future_aligned[i])
     /\ Len(run.scored) \in {0, Len(run.future_df)}

C10_Witness ==
  /\ Succeeded
  /\ model_columns = Schema2
  /\ Len(run.future_aligned) = 4
  /\ run.future_aligned[2][1] = 1
  /\ run.future_aligned[2][6] = 0

====
